---- MODULE Spec2Model ----
(***************************************************************************)
(* latex-to-llm: the dependency resolver of latex_to_llm.py                *)
(* (collect_dependencies and its nested recurse), the exclusion matcher    *)
(* (matches_any), the path helpers it relies on, and the part of main     *)
(* that consumes the resolver's four results.                              *)
(*                                                                         *)
(* Paths and patterns are strings, and the path and glob functions are      *)
(* computed character by character as the library the code calls does.     *)
(***************************************************************************)
EXTENDS Integers, Sequences, FiniteSets, TLC

VARIABLES
    disk,             \* what the run has learnt of the file system: absolute path -> file status
    entry_files,      \* collect_dependencies' first argument
    all_ignore_patterns, \* collect_dependencies' second argument
    entry_idx,        \* position of the main loop `for entry in entry_files`
    stack,            \* the active calls of recurse, innermost last
    visited_set,      \* set of project-relative paths
    processed_order,  \* list of project-relative paths (visitedOrder)
    deps,             \* OrderedDict: keys is its key order, val its value lists
    bibs,             \* set of bibliography paths
    images,           \* set of image paths
    result,           \* what collect_dependencies returned
    stderr,           \* the diagnostics printed so far
    opened,           \* the documents opened for reading so far, in order
    pc,               \* where main is
    exit_status,      \* the process's exit status once it has ended
    dry_run,          \* args.dry_run as main read it
    output_written,   \* whether os.makedirs(args.output) of write_outputs succeeded
    stdout,           \* what main has printed on standard output
    out_files,        \* the text files of the output directory: name -> sections
    manifest,         \* the manifest file of the output directory
    args,             \* args.per_folder and args.manifest as write_outputs read them
    run,              \* 1 in the first resolution, 2 in a repeated one
    first,            \* the entry list and the result of the first resolution, and
                      \* the files taken off the disk since
    budget,           \* total number of directives in the documents the run may read
    found_by          \* for each recorded document, the index of the entry whose traversal recorded it

vars == <<disk, entry_files, all_ignore_patterns, entry_idx, stack, visited_set,
          processed_order, deps, bibs, images, result, stderr, opened, pc,
          exit_status, dry_run, output_written, stdout, out_files, manifest, args,
          run, first, budget, found_by>>

(***************************************************************************)
(* Bounds of the model.                                                    *)
(***************************************************************************)
\* Total number of directives in the documents one resolution reads.
MaxDirectives == 3
\* Depth of recursion at which the interpreter raises RecursionError; no
\* resolution within MaxDirectives comes near it.
MaxDepth == MaxDirectives + 3

(***************************************************************************)
(* Strings.  TLC applies Len, \o, Head, Tail and SubSeq to strings; the    *)
(* character of s at i is SubSeq(s, i, i).                                 *)
(***************************************************************************)
\* The characters of the model, in code-point order.
Alphabet == <<"!", "*", ".", "/", "?", "[", "]", "a", "b", "e", "g", "i", "n", "p", "r", "s", "t", "x">>

Ord(c) == CHOOSE i \in 1..Len(Alphabet) : Alphabet[i] = c

Ch(s, i) == SubSeq(s, i, i)

Chars(s) == {Ch(s, i) : i \in 1..Len(s)}

Range(f) == {f[i] : i \in DOMAIN f}

\* str.find / str.rfind, 1-based, 0 when absent
RECURSIVE Find(_, _)
Find(s, c) ==
    IF s = "" THEN 0
    ELSE IF Head(s) = c THEN 1
    ELSE LET r == Find(Tail(s), c) IN IF r = 0 THEN 0 ELSE r + 1

RECURSIVE RFind(_, _)
RFind(s, c) ==
    IF s = "" THEN 0
    ELSE IF Ch(s, Len(s)) = c THEN Len(s)
    ELSE RFind(SubSeq(s, 1, Len(s) - 1), c)

StartsWith(s, p) == Len(p) <= Len(s) /\ SubSeq(s, 1, Len(p)) = p

EndsWith(s, p) == Len(p) <= Len(s) /\ SubSeq(s, Len(s) - Len(p) + 1, Len(s)) = p

\* str.split(sep) for a one-character separator
RECURSIVE Split(_, _)
Split(s, c) ==
    LET i == Find(s, c)
    IN  IF i = 0 THEN <<s>>
        ELSE <<SubSeq(s, 1, i - 1)>> \o Split(SubSeq(s, i + 1, Len(s)), c)

\* sep.join(list)
RECURSIVE JoinWith(_, _)
JoinWith(list, c) ==
    IF list = <<>> THEN ""
    ELSE IF Len(list) = 1 THEN list[1]
    ELSE list[1] \o c \o JoinWith(Tail(list), c)

\* the order of str: lexicographic by code point
RECURSIVE StrLess(_, _)
StrLess(s, t) ==
    IF t = "" THEN FALSE
    ELSE IF s = "" THEN TRUE
    ELSE IF Head(s) # Head(t) THEN Ord(Head(s)) < Ord(Head(t))
    ELSE StrLess(Tail(s), Tail(t))

\* sorted(list(set_of_str))
RECURSIVE Sorted(_)
Sorted(S) ==
    IF S = {} THEN <<>>
    ELSE LET m == CHOOSE x \in S : \A y \in S \ {x} : StrLess(x, y)
         IN  <<m>> \o Sorted(S \ {m})

(***************************************************************************)
(* os.path (posixpath), as the calls of the source use it.                 *)
(***************************************************************************)
SEP == "/"
DOT == "."
DOTDOT == ".."

\* os.getcwd(): the project root
Cwd == "/p"

IsAbs(p) == StartsWith(p, SEP)

\* os.path.join(a, b)
PathJoin(a, b) ==
    IF StartsWith(b, SEP) THEN b
    ELSE IF a = "" \/ EndsWith(a, SEP) THEN a \o b
    ELSE a \o SEP \o b

\* the loop of posixpath.normpath over the components
RECURSIVE NormComps(_, _, _)
NormComps(comps, new_comps, initial_slashes) ==
    IF comps = <<>> THEN new_comps
    ELSE LET comp == Head(comps)
             n == Len(new_comps)
         IN  IF comp = "" \/ comp = DOT
                 THEN NormComps(Tail(comps), new_comps, initial_slashes)
             ELSE IF \/ comp # DOTDOT
                     \/ (initial_slashes = 0 /\ n = 0)
                     \/ (n > 0 /\ new_comps[n] = DOTDOT)
                 THEN NormComps(Tail(comps), Append(new_comps, comp), initial_slashes)
             ELSE IF n > 0
                 THEN NormComps(Tail(comps), SubSeq(new_comps, 1, n - 1), initial_slashes)
             ELSE NormComps(Tail(comps), new_comps, initial_slashes)

\* posixpath.normpath
NormPath(path) ==
    IF path = "" THEN DOT
    ELSE LET initial_slashes ==
                 IF ~StartsWith(path, "/") THEN 0
                 ELSE IF StartsWith(path, "//") /\ ~StartsWith(path, "///")
                     THEN 2 ELSE 1
             body == JoinWith(NormComps(Split(path, SEP), <<>>, initial_slashes), SEP)
             out == SubSeq("//", 1, initial_slashes) \o body
         IN  IF out = "" THEN DOT ELSE out

\* os.path.abspath
AbsPath(path) == NormPath(IF IsAbs(path) THEN path ELSE PathJoin(Cwd, path))

NonEmpty(list) == SelectSeq(list, LAMBDA x : x # "")

\* len(commonprefix([a, b])) of two lists
RECURSIVE CommonLen(_, _)
CommonLen(a, b) ==
    IF a = <<>> \/ b = <<>> \/ Head(a) # Head(b) THEN 0
    ELSE 1 + CommonLen(Tail(a), Tail(b))

\* os.path.relpath(path, start) for a non-empty path
RelPath(path, start) ==
    LET start_list == NonEmpty(Split(AbsPath(start), SEP))
        path_list == NonEmpty(Split(AbsPath(path), SEP))
        i == CommonLen(start_list, path_list)
        rel_list == [k \in 1..(Len(start_list) - i) |-> DOTDOT]
                    \o SubSeq(path_list, i + 1, Len(path_list))
    IN  IF rel_list = <<>> THEN DOT ELSE JoinWith(rel_list, SEP)

\* str.rstrip("/")
RECURSIVE RStripSep(_)
RStripSep(s) == IF EndsWith(s, SEP) THEN RStripSep(SubSeq(s, 1, Len(s) - 1)) ELSE s

\* os.path.dirname
Dirname(p) ==
    LET head == SubSeq(p, 1, RFind(p, SEP))
    IN  IF head # "" /\ Chars(head) # {SEP} THEN RStripSep(head) ELSE head

\* os.path.basename
Basename(p) == SubSeq(p, RFind(p, SEP) + 1, Len(p))

\* genericpath._splitext: the index of the dot that starts the extension, 0 if none
RECURSIVE SplitExtScan(_, _, _)
SplitExtScan(p, filenameIndex, dotIndex) ==
    IF filenameIndex >= dotIndex THEN 0
    ELSE IF Ch(p, filenameIndex) # "." THEN dotIndex
    ELSE SplitExtScan(p, filenameIndex + 1, dotIndex)

\* os.path.splitext(p)[1]
SplitExtExt(p) ==
    LET sepIndex == RFind(p, SEP)
        dotIndex == RFind(p, ".")
        cut == IF dotIndex > sepIndex THEN SplitExtScan(p, sepIndex + 1, dotIndex) ELSE 0
    IN  IF cut = 0 THEN "" ELSE SubSeq(p, cut, Len(p))

(***************************************************************************)
(* fnmatch.fnmatch, as matches_any calls it.  The alphabet holds no '-',   *)
(* so a bracket expression is a plain set of characters.                   *)
(***************************************************************************)
\* fnmatch.translate's scan for the "]" that closes a bracket expression:
\* rest is the pattern after "[", the result the index of "]" in rest, 0 if none
RECURSIVE ClassScan(_, _)
ClassScan(rest, j) ==
    IF j > Len(rest) THEN 0
    ELSE IF Ch(rest, j) = "]" THEN j
    ELSE ClassScan(rest, j + 1)

ClassEnd(rest) ==
    LET j1 == IF 1 <= Len(rest) /\ Ch(rest, 1) = "!" THEN 2 ELSE 1
        j2 == IF j1 <= Len(rest) /\ Ch(rest, j1) = "]" THEN j1 + 1 ELSE j1
    IN  ClassScan(rest, j2)

\* re.match(fnmatch.translate(pat), name) is not None
RECURSIVE FnMatch(_, _)
FnMatch(name, pat) ==
    IF pat = "" THEN name = ""
    ELSE LET c == Head(pat)
             rest == Tail(pat)
         IN  CASE c = "*" ->
                    \E k \in 0..Len(name) : FnMatch(SubSeq(name, k + 1, Len(name)), rest)
               [] c = "?" ->
                    name # "" /\ FnMatch(Tail(name), rest)
               [] c = "[" ->
                    LET j == ClassEnd(rest)
                    IN  IF j = 0
                        THEN name # "" /\ Head(name) = "[" /\ FnMatch(Tail(name), rest)
                        ELSE LET stuff == SubSeq(rest, 1, j - 1)
                                 negated == Head(stuff) = "!"
                                 members == IF negated THEN Chars(Tail(stuff)) ELSE Chars(stuff)
                             IN  /\ name # ""
                                 /\ (Head(name) \in members) # negated
                                 /\ FnMatch(Tail(name), SubSeq(rest, j + 1, Len(rest)))
               [] OTHER ->
                    name # "" /\ Head(name) = c /\ FnMatch(Tail(name), rest)

\* fault: only the whole path is matched
FullPathOnly(rel_path, pat) == FnMatch(rel_path, pat)

\* one iteration of the loop of matches_any
MatchesOne(rel_path, pat) ==
    \/ FnMatch(rel_path, pat)
    \/ FnMatch(Basename(rel_path), pat)
    \/ (EndsWith(pat, SEP) /\ StartsWith(rel_path, pat))

matches_any(rel_path, patterns) ==
    \E k \in 1..Len(patterns) : MatchesOne(rel_path, patterns[k])

(***************************************************************************)
(* Reference extraction: a document's text is the sequence of its          *)
(* directives, each a command and the reference between its braces.        *)
(***************************************************************************)
IncludeCommands == {"subfile", "input", "include"}
BibCommands == {"bibliography", "addbibresource"}
GraphicsCommands == {"includegraphics"}

\* REGEX.findall(text) for the regex of the given commands
FindAll(commands, text) ==
    LET sel == SelectSeq(text, LAMBDA d : d.cmd \in commands)
    IN  [k \in 1..Len(sel) |-> sel[k].ref]

INCLUDE_REGEX(text) == FindAll(IncludeCommands, text)

BIB_REGEX(text) == FindAll(BibCommands, text)

GRAPHICS_REGEX(text) == FindAll(GraphicsCommands, text)

(***************************************************************************)
(* The inputs of the model.                                                *)
(***************************************************************************)
IncludeRefs == { "a", "./a", "b", "s/a", "../a" }

BibRefs == { "r" }

ImageRefs == { "i.png" }

Directives ==
    {[cmd |-> "input", ref |-> r] : r \in IncludeRefs}
    \cup {[cmd |-> "bibliography", ref |-> r] : r \in BibRefs}
    \cup {[cmd |-> "includegraphics", ref |-> r] : r \in ImageRefs}

EntryNames == { "a.tex", "s/a.tex" }

PatternNames == { "s/", "[!a]*" }

NoRepeat(list) == \A i, j \in 1..Len(list) : list[i] = list[j] => i = j

\* the sequences over S of length at most n
RECURSIVE SeqsUpTo(_, _)
SeqsUpTo(S, n) ==
    IF n <= 0 THEN {<<>>}
    ELSE LET shorter == SeqsUpTo(S, n - 1)
         IN  shorter \cup {Append(q, x) : q \in {r \in shorter : Len(r) = n - 1}, x \in S}

\* args.entry: one or two entries, the same one twice included
EntryLists == SeqsUpTo(EntryNames, 2) \ {<<>>}

\* the ignore patterns: none, or one of PatternNames
PatternLists == SeqsUpTo(PatternNames, 1)

\* The three regexes are applied to the whole text one after the other, so
\* only the order of the directives of one kind matters: a text stands for
\* all its interleavings that keep that order.
Rank(d) ==
    CASE d.cmd \in IncludeCommands -> 1
      [] d.cmd \in BibCommands -> 2
      [] OTHER -> 3

Texts ==
    {t \in SeqsUpTo(Directives, MaxDirectives) :
        \A k \in 1..(Len(t) - 1) : Rank(t[k]) <= Rank(t[k + 1])}

\* the texts of at most n directives
TextsWithin == [n \in 0..MaxDirectives |-> {u \in Texts : Len(u) <= n}]

(***************************************************************************)
(* The file system.  It does not change during a run; the model learns a   *)
(* file's status when the code first asks for it (os.path.isfile, open)    *)
(* and every later question gets the same answer.                          *)
(***************************************************************************)
RECURSIVE SumLen(_, _)
SumLen(d, S) ==
    IF S = {} THEN 0
    ELSE LET q == CHOOSE q \in S : TRUE
         IN  Len(d[q].text) + SumLen(d, S \ {q})

\* the directives in the documents read so far
Used(d) == SumLen(d, DOMAIN d)

NoContent == [readable |-> FALSE, text |-> <<>>]

\* os.path.isfile(path): the possible answers
IsFileAnswers(d, path) ==
    IF path \in DOMAIN d THEN {d[path].isfile} ELSE BOOLEAN

LearnIsFile(d, path, f) ==
    IF path \in DOMAIN d THEN d
    ELSE d @@ (path :> [isfile |-> f, read |-> FALSE, readable |-> FALSE, text |-> <<>>])

\* open(path).read() of an existing file: the possible outcomes
ReadAnswers(d, path) ==
    IF path \in DOMAIN d /\ d[path].read
    THEN {[readable |-> d[path].readable, text |-> d[path].text]}
    ELSE {NoContent} \cup {[readable |-> TRUE, text |-> t] : t \in TextsWithin[budget - Used(d)]}

LearnRead(d, path, c) ==
    (path :> [isfile |-> TRUE, read |-> TRUE, readable |-> c.readable, text |-> c.text]) @@ d

(***************************************************************************)
(* collect_dependencies.  The variables a step of the resolver may change  *)
(* are gathered in one record, so that a call of recurse made by a step    *)
(* is part of that step.                                                   *)
(***************************************************************************)
Machine ==
    [disk |-> disk, entry_idx |-> entry_idx, stack |-> stack, visited_set |-> visited_set,
     processed_order |-> processed_order, deps |-> deps, bibs |-> bibs, images |-> images,
     stderr |-> stderr, opened |-> opened, found_by |-> found_by, crashed |-> FALSE]

Diag(kind, path) == [kind |-> kind, path |-> path]

TexExt == ".tex"

BibExt == ".bib"

\* fault: the reference is resolved against the project root
resolve_from_root(base_dir, ref) ==
    LET ext == SplitExtExt(ref)
        ref_path == IF ext = "" THEN ref \o TexExt ELSE ref
    IN  AbsPath(PathJoin(Cwd, ref_path))

resolve_tex_path(base_dir, ref) ==
    LET ext == SplitExtExt(ref)
        ref_path == IF ext = "" THEN ref \o TexExt ELSE ref
    IN  AbsPath(PathJoin(base_dir, ref_path))

\* fault: the path is taken from the project root
normalize_from_root(base_dir, ref_path) ==
    RelPath(AbsPath(PathJoin(Cwd, ref_path)), Cwd)

normalize_path(base_dir, ref_path) ==
    RelPath(AbsPath(PathJoin(base_dir, ref_path)), Cwd)

\* the child an inclusion reference found in document path_abs denotes
ChildOf(path_abs, ref) ==
    LET current_dir == Dirname(path_abs)
        child_abs == resolve_tex_path(current_dir, ref)
    IN  [abs |-> child_abs, rel |-> RelPath(child_abs, Cwd)]

\* the traversal state a call of collect_dependencies starts with
EmptyDict == [keys |-> <<>>, val |-> <<>>]

\* fault: the visited set outlives the call
KeepVisited(previous) == previous

InitialVisited(previous) == {}

\* deps[k] = v
DictSet(dct, k, v) ==
    [keys |-> IF k \in Range(dct.keys) THEN dct.keys ELSE Append(dct.keys, k),
     val |-> (k :> v) @@ dct.val]

\* fault: the visited set is not consulted
OnlyIgnored(visited, rel_path) == matches_any(rel_path, all_ignore_patterns)

\* recurse: "Check ignore/visited status first"
AlreadyHandled(visited, rel_path) ==
    rel_path \in visited \/ matches_any(rel_path, all_ignore_patterns)

\* fault: a file that is not on disk is reported and not marked as visited
WarnOnly(m, rel_path) ==
    [m EXCEPT !.stderr = Append(@, Diag("Referenced file not found", rel_path))]

\* fault: a file that is not on disk is recorded as processed
RecordMissing(m, rel_path) ==
    [m EXCEPT !.stderr = Append(@, Diag("Referenced file not found", rel_path)),
              !.visited_set = @ \cup {rel_path},
              !.processed_order = Append(@, rel_path)]

\* fault: a file that is not on disk gets an adjacency entry
KeyMissing(m, rel_path) ==
    [m EXCEPT !.stderr = Append(@, Diag("Referenced file not found", rel_path)),
              !.visited_set = @ \cup {rel_path},
              !.deps = DictSet(@, rel_path, <<>>)]

\* recurse: the referenced file is not on disk
MarkMissing(m, rel_path) ==
    [m EXCEPT !.stderr = Append(@, Diag("Referenced file not found", rel_path)),
              !.visited_set = @ \cup {rel_path}]

\* fault: a processed document is not marked as visited
ForgetVisited(m, rel_path) ==
    [m EXCEPT !.processed_order = Append(@, rel_path),
              !.deps = DictSet(@, rel_path, <<>>),
              !.found_by = (rel_path :> m.entry_idx) @@ @]

\* recurse: "Mark as visited and add to processing order"
MarkProcessed(m, rel_path) ==
    [m EXCEPT !.visited_set = @ \cup {rel_path},
              !.processed_order = Append(@, rel_path),
              !.deps = DictSet(@, rel_path, <<>>),
              !.found_by = (rel_path :> m.entry_idx) @@ @]

\* fault: a document that cannot be read is taken off the lists again
NeverListed(m, rel_path) ==
    [m EXCEPT !.stderr = Append(@, Diag("Could not read file", rel_path)),
              !.processed_order = SelectSeq(@, LAMBDA p : p # rel_path),
              !.deps = [keys |-> SelectSeq(@.keys, LAMBDA k : k # rel_path),
                        val |-> [k \in DOMAIN @.val \ {rel_path} |-> @.val[k]]]]

\* fault: a document that cannot be read is passed over in silence
Unreported(m, rel_path) == m

\* recurse: "Cannot process children if unreadable"
ReadFailed(m, rel_path) ==
    [m EXCEPT !.stderr = Append(@, Diag("Could not read file", rel_path))]

NewFrame(path_abs, rel_path) ==
    [path_abs |-> path_abs, rel_path |-> rel_path, loop |-> "include", i |-> 1]

\* recurse(path_abs) up to its first loop, rel_path being
\* os.path.relpath(path_abs); isf and content are what os.path.isfile and
\* open().read() answer
RecurseCall(m, path_abs, rel_path, isf, content) ==
    IF Len(m.stack) >= MaxDepth THEN [m EXCEPT !.crashed = TRUE]
    ELSE IF AlreadyHandled(m.visited_set, rel_path) THEN m
    ELSE IF ~isf THEN MarkMissing([m EXCEPT !.disk = LearnIsFile(@, path_abs, FALSE)], rel_path)
    ELSE LET m1 == MarkProcessed([m EXCEPT !.disk = LearnRead(@, path_abs, content)], rel_path)
         IN  IF ~content.readable
             THEN ReadFailed(m1, rel_path)
             ELSE [m1 EXCEPT !.opened = Append(@, rel_path),
                             !.stack = Append(@, NewFrame(path_abs, rel_path))]

\* the answers of the file system a call recurse(path_abs) may get
CallAnswers(m, path_abs, rel_path) ==
    IF Len(m.stack) >= MaxDepth \/ AlreadyHandled(m.visited_set, rel_path)
    THEN {[isf |-> FALSE, content |-> NoContent]}
    ELSE {[isf |-> FALSE, content |-> NoContent] : f \in IsFileAnswers(m.disk, path_abs) \ {TRUE}}
         \cup UNION {{[isf |-> TRUE, content |-> c] : c \in ReadAnswers(m.disk, path_abs)}
                         : f \in IsFileAnswers(m.disk, path_abs) \ {FALSE}}

\* fault: the references are taken last first
Reverse(list) == [k \in 1..Len(list) |-> list[Len(list) + 1 - k]]

LastFirst(d, f) ==
    LET text == d[f.path_abs].text
    IN  CASE f.loop = "include" -> Reverse(INCLUDE_REGEX(text))
          [] f.loop = "bib" -> Reverse(BIB_REGEX(text))
          [] f.loop = "graphics" -> Reverse(GRAPHICS_REGEX(text))
          [] OTHER -> <<>>

\* the references the loop a frame is in iterates over
LoopRefs(d, f) ==
    LET text == d[f.path_abs].text
    IN  CASE f.loop = "include" -> INCLUDE_REGEX(text)
          [] f.loop = "bib" -> BIB_REGEX(text)
          [] f.loop = "graphics" -> GRAPHICS_REGEX(text)
          [] OTHER -> <<>>

NextLoop(loop) ==
    CASE loop = "include" -> "bib"
      [] loop = "bib" -> "graphics"
      [] OTHER -> "return"

\* a loop that has no reference left ends, and a call whose three loops
\* have ended returns to its caller
RECURSIVE Settle(_, _)
Settle(d, st) ==
    IF st = <<>> THEN st
    ELSE LET f == st[Len(st)]
         IN  IF f.loop = "return" THEN Settle(d, SubSeq(st, 1, Len(st) - 1))
             ELSE IF f.i > Len(LoopRefs(d, f))
                 THEN Settle(d, [st EXCEPT ![Len(st)] = [f EXCEPT !.loop = NextLoop(f.loop), !.i = 1]])
             ELSE st

\* fault: an entry that is not a file ends the main loop
StopAtMissing(m, entry) ==
    [m EXCEPT !.stderr = Append(@, Diag("Entry file not found", entry)),
              !.entry_idx = Len(entry_files)]

\* the main loop: an entry that is not a file
SkipEntry(m, entry) ==
    [m EXCEPT !.stderr = Append(@, Diag("Entry file not found", entry))]

\* the step's effect on the variables; the main loop moves to its next
\* entry when the call it made has returned
Commit(m) ==
    LET st == Settle(m.disk, m.stack)
    IN  /\ disk' = m.disk
        /\ stack' = st
        /\ entry_idx' = IF st = <<>> /\ ~m.crashed THEN m.entry_idx + 1 ELSE m.entry_idx
        /\ visited_set' = m.visited_set
        /\ processed_order' = m.processed_order
        /\ deps' = m.deps
        /\ bibs' = m.bibs
        /\ images' = m.images
        /\ stderr' = m.stderr
        /\ opened' = m.opened
        /\ found_by' = m.found_by
        /\ pc' = IF m.crashed THEN "exit" ELSE pc
        /\ exit_status' = IF m.crashed THEN 1 ELSE exit_status
        /\ UNCHANGED <<entry_files, all_ignore_patterns, result, dry_run, output_written,
                       stdout, out_files, manifest, args, run, first, budget>>

\* the main loop has an entry left
MoreEntries ==
    /\ pc = "collect"
    /\ stack = <<>>
    /\ entry_idx <= Len(entry_files)

\* the innermost call of recurse is in the given loop with a reference left
InLoop(loop) ==
    /\ pc = "collect"
    /\ stack # <<>>
    /\ stack[Len(stack)].loop = loop
    /\ stack[Len(stack)].i <= Len(LoopRefs(disk, stack[Len(stack)]))

\* the main loop has ended
EntriesDone ==
    /\ pc = "collect"
    /\ stack = <<>>
    /\ entry_idx > Len(entry_files)

\* for entry in entry_files: ...
EntryStep ==
    /\ MoreEntries
    /\ LET entry == entry_files[entry_idx]
           entry_abs == AbsPath(PathJoin(Cwd, entry))
           rel_path == RelPath(entry_abs, Cwd)
       IN  \E f \in IsFileAnswers(disk, entry_abs) :
               LET m == [Machine EXCEPT !.disk = LearnIsFile(@, entry_abs, f)]
               IN  IF ~f THEN Commit(SkipEntry(m, entry))
                   ELSE \E a \in CallAnswers(m, entry_abs, rel_path) :
                            Commit(RecurseCall(m, entry_abs, rel_path, a.isf, a.content))

\* fault: no child is ignored
NeverExcluded(child_rel) == FALSE

\* "Check if resolved path should be ignored"
ChildExcluded(child_rel) == matches_any(child_rel, all_ignore_patterns)

\* fault: the edge is appended without looking for it
AlwaysAppend(dct, rel_path, child_rel) ==
    [dct EXCEPT !.val[rel_path] = Append(@, child_rel)]

\* fault: a new edge is put in front of the others
Prepend(dct, rel_path, child_rel) ==
    IF child_rel \notin Range(dct.val[rel_path])
    THEN [dct EXCEPT !.val[rel_path] = <<child_rel>> \o @]
    ELSE dct

\* fault: a repeated reference moves its child to the end of the list
MoveToEnd(dct, rel_path, child_rel) ==
    [dct EXCEPT !.val[rel_path] = Append(SelectSeq(@, LAMBDA c : c # child_rel), child_rel)]

\* fault: the child gets an adjacency entry at once
KeyForChild(dct, rel_path, child_rel) ==
    LET withKey == IF child_rel \in Range(dct.keys) THEN dct ELSE DictSet(dct, child_rel, <<>>)
    IN  IF child_rel \notin Range(withKey.val[rel_path])
        THEN [withKey EXCEPT !.val[rel_path] = Append(@, child_rel)]
        ELSE withKey

\* fault: a document is not made a child of itself
NoSelfEdge(dct, rel_path, child_rel) ==
    IF child_rel \notin Range(dct.val[rel_path]) /\ child_rel # rel_path
    THEN [dct EXCEPT !.val[rel_path] = Append(@, child_rel)]
    ELSE dct

\* fault: only the edge that discovers a document is kept
TreeOnly(dct, rel_path, child_rel) ==
    IF child_rel \notin Range(dct.val[rel_path]) /\ child_rel \notin Range(dct.keys)
    THEN [dct EXCEPT !.val[rel_path] = Append(@, child_rel)]
    ELSE dct

\* "Add dependency relationship"
AddEdge(dct, rel_path, child_rel) ==
    IF child_rel \notin Range(dct.val[rel_path])
    THEN [dct EXCEPT !.val[rel_path] = Append(@, child_rel)]
    ELSE dct

\* "Recurse if not already visited"
ShouldRecurse(visited, child_rel) == child_rel \notin visited

\* os.path.relpath(child_abs, start=project_root) raises ValueError: with
\* ntpath, when the path is on another drive than the project root.  A
\* reference that begins with a drive stands for such a path.
RelpathRaises(ref) == Len(ref) >= 2 /\ Ch(ref, 2) = ":"

\* fault: the reference that cannot be made relative is reported
SkipReported(m, ref) ==
    [m EXCEPT !.stderr = Append(@, Diag("Cannot get relative path", ref))]

\* "Skip if relpath fails"
SkipReference(m, ref) == m

\* one iteration of `for ref in INCLUDE_REGEX.findall(text)`
IncludeStep ==
    /\ InLoop("include")
    /\ LET f == stack[Len(stack)]
           ref == LoopRefs(disk, f)[f.i]
           child == ChildOf(f.path_abs, ref)
           m0 == [Machine EXCEPT !.stack[Len(stack)].i = @ + 1]
       IN  IF RelpathRaises(ref) THEN Commit(SkipReference(m0, ref))
           ELSE IF ChildExcluded(child.rel) THEN Commit(m0)
           ELSE LET m1 == [m0 EXCEPT !.deps = AddEdge(@, f.rel_path, child.rel)]
                IN  IF ~ShouldRecurse(m1.visited_set, child.rel) THEN Commit(m1)
                    ELSE \E a \in CallAnswers(m1, child.abs, child.rel) :
                             Commit(RecurseCall(m1, child.abs, child.rel, a.isf, a.content))

\* the name of the bibliography file a reference denotes; the alphabet has
\* no upper-case letter, so ref.lower() is ref
BibFile(ref) == IF EndsWith(ref, BibExt) THEN ref ELSE ref \o BibExt

\* fault: the project root is looked at before the document's directory
RootFirst(current_dir, bib_file) ==
    <<AbsPath(PathJoin(Cwd, bib_file)), AbsPath(PathJoin(current_dir, bib_file))>>

\* bib_abs and bib_abs_root, in the order they are looked at
BibCandidates(current_dir, bib_file) ==
    <<AbsPath(PathJoin(current_dir, bib_file)), AbsPath(PathJoin(Cwd, bib_file))>>

\* fault: a bibliography that is not found is recorded as if it were at
\* the project root
RootGuess(bib_file, bib_abs_root) == RelPath(bib_abs_root, Cwd)

\* bib_rel of a bibliography that is not found: "Use original ref"
NotFoundName(bib_file, bib_abs_root) == bib_file

\* one iteration of `for ref in BIB_REGEX.findall(text)`
BibStep ==
    /\ InLoop("bib")
    /\ LET f == stack[Len(stack)]
           ref == LoopRefs(disk, f)[f.i]
           current_dir == Dirname(f.path_abs)
           bib_file == BibFile(ref)
           bib_abs == BibCandidates(current_dir, bib_file)[1]
           bib_abs_root == BibCandidates(current_dir, bib_file)[2]
           m0 == [Machine EXCEPT !.stack[Len(stack)].i = @ + 1]
       IN  \E here \in IsFileAnswers(disk, bib_abs) :
               LET d1 == LearnIsFile(disk, bib_abs, here)
               IN  \E root \in (IF here THEN {FALSE} ELSE IsFileAnswers(d1, bib_abs_root)) :
                       LET d2 == IF here THEN d1 ELSE LearnIsFile(d1, bib_abs_root, root)
                           bib_rel == IF here THEN RelPath(bib_abs, Cwd)
                                      ELSE IF root THEN RelPath(bib_abs_root, Cwd)
                                      ELSE NotFoundName(bib_file, bib_abs_root)
                           m1 == [m0 EXCEPT !.disk = d2]
                       IN  IF ~matches_any(bib_rel, all_ignore_patterns)
                           THEN Commit([m1 EXCEPT !.bibs = @ \cup {bib_rel}])
                           ELSE Commit(m1)

\* one iteration of `for ref in GRAPHICS_REGEX.findall(text)`
ImageStep ==
    /\ InLoop("graphics")
    /\ LET f == stack[Len(stack)]
           ref == LoopRefs(disk, f)[f.i]
           current_dir == Dirname(f.path_abs)
           img_rel_path == normalize_path(current_dir, ref)
           m0 == [Machine EXCEPT !.stack[Len(stack)].i = @ + 1]
       IN  IF ~matches_any(img_rel_path, all_ignore_patterns)
           THEN Commit([m0 EXCEPT !.images = @ \cup {img_rel_path}])
           ELSE Commit(m0)

\* return processed_order, deps, sorted(list(bibs)), sorted(list(images))
ReturnValue(order, dct, b, im) ==
    [visited |-> order, deps |-> dct, bibs |-> Sorted(b), images |-> Sorted(im)]

Return ==
    /\ EntriesDone
    /\ result' = ReturnValue(processed_order, deps, bibs, images)
    /\ pc' = "collected"
    /\ UNCHANGED <<disk, entry_files, all_ignore_patterns, entry_idx, stack, visited_set,
                   processed_order, deps, bibs, images, stderr, opened, exit_status,
                   dry_run, output_written, stdout, out_files, manifest, args,
                   run, first, budget, found_by>>

(***************************************************************************)
(* main, after collect_dependencies has returned.                          *)
(***************************************************************************)
\* "if not visited and not bibs and not images": a warning, nothing more
NothingFound(r) == r.visited = <<>> /\ r.bibs = <<>> /\ r.images = <<>>

WarnIfNothing(err, r) ==
    IF NothingFound(r) THEN Append(err, Diag("No dependencies found", "")) ELSE err

\* sorted(list) of a list of strings
RECURSIVE SortList(_)
SortList(list) ==
    IF list = <<>> THEN <<>>
    ELSE LET i == CHOOSE i \in 1..Len(list) :
                      \A j \in 1..Len(list) : list[j] = list[i] \/ StrLess(list[i], list[j])
         IN  <<list[i]>> \o SortList(SubSeq(list, 1, i - 1) \o SubSeq(list, i + 1, Len(list)))

\* os.path.isfile and os.path.exists of a path main has met before; the
\* entries and the documents are files or absent, never directories
IsFileNow(d, rel_path) ==
    LET abs_path == AbsPath(PathJoin(Cwd, rel_path))
    IN  abs_path \in DOMAIN d /\ d[abs_path].isfile

\* print(prefix + node) and print(prefix + node + " (seen)")
TreeLine(depth, node, seen) == [depth |-> depth, node |-> node, seen |-> seen]

\* fault: a node met again is expanded again, down to the fourth level
RECURSIVE ExpandAgain(_, _, _)
ExpandAgain(dps, todo, st) ==
    IF todo = <<>> THEN st
    ELSE LET node == Head(todo).node
             depth == Head(todo).depth
             children == IF node \in Range(dps.keys) /\ depth < 3 THEN SortList(dps.val[node])
                         ELSE <<>>
             calls == [k \in 1..Len(children) |-> [node |-> children[k], depth |-> depth + 1]]
         IN  ExpandAgain(dps, calls \o Tail(todo),
                         [lines |-> Append(st.lines, TreeLine(depth, node, node \in st.processed)),
                          processed |-> st.processed \cup {node}])

\* print_tree._print for the calls still to make, the next one first; st is
\* the lines printed and the set processed
RECURSIVE print_nodes(_, _, _)
print_nodes(dps, todo, st) ==
    IF todo = <<>> THEN st
    ELSE LET node == Head(todo).node
             depth == Head(todo).depth
         IN  IF node \in st.processed
             THEN print_nodes(dps, Tail(todo),
                              [st EXCEPT !.lines = Append(@, TreeLine(depth, node, TRUE))])
             ELSE LET children == IF node \in Range(dps.keys) THEN SortList(dps.val[node])
                                  ELSE <<>>
                      calls == [k \in 1..Len(children) |->
                                   [node |-> children[k], depth |-> depth + 1]]
                  IN  print_nodes(dps, calls \o Tail(todo),
                                  [lines |-> Append(st.lines, TreeLine(depth, node, FALSE)),
                                   processed |-> st.processed \cup {node}])

Printed(kind, items) == [kind |-> kind, items |-> items]

print_tree(d, dps, roots) ==
    LET valid_roots == SelectSeq(roots, LAMBDA r : IsFileNow(d, r))
        rels == [k \in 1..Len(valid_roots) |-> RelPath(AbsPath(PathJoin(Cwd, valid_roots[k])), Cwd)]
        processed_roots_in_deps == SortList(SelectSeq(rels, LAMBDA r : r \in Range(dps.keys)))
        calls == [k \in 1..Len(processed_roots_in_deps) |->
                     [node |-> processed_roots_in_deps[k], depth |-> 0]]
    IN  IF valid_roots = <<>> THEN Printed("No valid entry points found", <<>>)
        ELSE IF processed_roots_in_deps = <<>>
            THEN Printed("None of the entry points were processed", <<>>)
        ELSE Printed("Dependency tree", print_nodes(dps, calls, [lines |-> <<>>, processed |-> {}]).lines)

\* fault: the tree is left out
ListsOnly(d, r, entries) ==
    <<Printed("Dry Run", <<>>),
      Printed("Files to be exported", r.visited),
      Printed(".bib files referenced", r.bibs),
      Printed("Images referenced", r.images),
      Printed("End Dry Run", <<>>)>>

\* what the dry run prints
DryRunOutput(d, r, entries) ==
    <<Printed("Dry Run", <<>>),
      print_tree(d, r.deps, entries),
      Printed("Files to be exported", r.visited),
      Printed(".bib files referenced", r.bibs),
      Printed("Images referenced", r.images),
      Printed("End Dry Run", <<>>)>>

NoManifest == [written |-> FALSE, name |-> "", files |-> <<>>, bibs |-> <<>>, images |-> <<>>]

NoArgs == [per_folder |-> FALSE, manifest |-> "unread"]

\* args.dry_run: print the tree and the lists, sys.exit(0)
DryRun ==
    /\ pc = "collected"
    /\ run = 1
    /\ dry_run' = TRUE
    /\ stderr' = WarnIfNothing(stderr, result)
    /\ stdout' = stdout \o DryRunOutput(disk, result, entry_files)
    /\ pc' = "exit"
    /\ exit_status' = 0
    /\ UNCHANGED <<disk, entry_files, all_ignore_patterns, entry_idx, stack, visited_set,
                   processed_order, deps, bibs, images, result, opened, output_written,
                   out_files, manifest, args, run, first, budget, found_by>>

\* re.sub(r'[\\/*?:"<>|]', '_', folder)
Forbidden == {"\\", "/", "*", "?", ":", "\"", "<", ">", "|"}

\* fault: the folder name is used as it is
Unsanitized(folder) == folder

Sanitize(folder) ==
    JoinWith([k \in 1..Len(folder) |->
                 IF Ch(folder, k) \in Forbidden THEN "_" ELSE Ch(folder, k)], "")

\* the key a visited path is grouped under
FolderKey(rel_path) ==
    LET folder == IF Dirname(rel_path) = "" THEN "." ELSE Dirname(rel_path)
        sanitized_folder == Sanitize(folder)
    IN  IF folder \in {"", "."} THEN "_" ELSE sanitized_folder

\* "=== File: <path> ===" or "=== Bib: <path> ===", then the content of the
\* file or, when it cannot be read, "*** Error reading file ***", then two
\* newlines
Section(kind, d, rel_path) ==
    LET abs_path == AbsPath(PathJoin(Cwd, rel_path))
    IN  [kind |-> kind, path |-> rel_path, ok |-> d[abs_path].readable,
         text |-> d[abs_path].text]

\* fault: a file that cannot be read gets no section
ReadableOnly(kind, d, paths) ==
    LET there == SelectSeq(paths, LAMBDA p : IsFileNow(d, p) /\ d[AbsPath(PathJoin(Cwd, p))].readable)
    IN  [k \in 1..Len(there) |-> Section(kind, d, there[k])]

\* the sections of the paths that are files, in the order of the list
Sections(kind, d, paths) ==
    LET there == SelectSeq(paths, LAMBDA p : IsFileNow(d, p))
    IN  [k \in 1..Len(there) |-> Section(kind, d, there[k])]

\* args.per_folder: one file per folder key, sorted within the folder
PerFolderFiles(d, visited) ==
    LET there == SelectSeq(visited, LAMBDA p : IsFileNow(d, p))
        keys == {FolderKey(there[k]) : k \in 1..Len(there)}
    IN  [name \in {key \o ".txt" : key \in keys} |->
            Sections("File", d, SortList(SelectSeq(there, LAMBDA p : FolderKey(p) \o ".txt" = name)))]

\* otherwise full-project.txt, in visited order
SingleFile(d, visited) == "full-project.txt" :> Sections("File", d, visited)

\* fault: a bibliography that is not a file gets a section all the same
EveryBib(d, bib_list) ==
    IF bib_list = <<>> THEN <<>>
    ELSE "bibliography.txt" :>
             [k \in 1..Len(bib_list) |->
                 [kind |-> "Bib", path |-> bib_list[k], ok |-> FALSE, text |-> <<>>]]

\* bibliography.txt: opened only if there are bibs, and removed again when
\* it is empty
BibliographyFile(d, bib_list) ==
    LET sections == Sections("Bib", d, bib_list)
    IN  IF bib_list = <<>> \/ sections = <<>> THEN <<>>
        ELSE "bibliography.txt" :> sections

\* the manifest dictionary and the name of its file
ManifestOf(r, format) ==
    [written |-> TRUE, name |-> "manifest." \o format,
     files |-> r.visited, bibs |-> r.bibs, images |-> r.images]

\* the file system once os.path.isfile and open().read() have answered for
\* the paths; text stays empty, these files are not scanned
RECURSIVE AskAll(_, _)
AskAll(d, paths) ==
    IF paths = <<>> THEN {d}
    ELSE LET abs_path == AbsPath(PathJoin(Cwd, Head(paths)))
             answers == {LearnIsFile(d, abs_path, FALSE) : f \in IsFileAnswers(d, abs_path) \ {TRUE}}
                        \cup UNION {{LearnRead(d, abs_path, c) :
                                        c \in IF abs_path \in DOMAIN d /\ d[abs_path].read
                                              THEN {[readable |-> d[abs_path].readable,
                                                     text |-> d[abs_path].text]}
                                              ELSE {[readable |-> b, text |-> <<>>] : b \in BOOLEAN}}
                                       : f \in IsFileAnswers(d, abs_path) \ {FALSE}}
         IN  UNION {AskAll(d1, Tail(paths)) : d1 \in answers}

\* the list without the repetitions of its items
Distinct(list) ==
    LET firsts == SelectSeq([k \in 1..Len(list) |-> k],
                            LAMBDA k : \A j \in 1..(k - 1) : list[j] # list[k])
    IN  [i \in 1..Len(firsts) |-> list[firsts[i]]]

\* the names of the files write_outputs opens for writing, in that order
Attempted(d, r, a) ==
    LET there == SelectSeq(r.visited, LAMBDA p : IsFileNow(d, p))
    IN  (IF a.per_folder
         THEN Distinct([k \in 1..Len(there) |-> FolderKey(there[k]) \o ".txt"])
         ELSE <<"full-project.txt">>)
        \o (IF r.bibs # <<>> THEN <<"bibliography.txt">> ELSE <<>>)
        \o (IF a.manifest # "none" THEN <<"manifest." \o a.manifest>> ELSE <<>>)

WriteErrors(err, names) ==
    err \o [k \in 1..Len(names) |-> Diag("Could not write output file", names[k])]

ArgsRead == [per_folder : BOOLEAN, manifest : {"none", "json"}]

\* write_outputs and the rest of main.  made is whether os.makedirs
\* succeeded, writable whether the files of the output directory can be
\* opened for writing.  A file that cannot be written is reported and the
\* run goes on to "Export complete".
WriteOutputs ==
    /\ pc = "collected"
    /\ run = 1
    /\ dry_run' = FALSE
    /\ \E made \in BOOLEAN :
           /\ output_written' = made
           /\ exit_status' = IF made THEN 0 ELSE 1
           /\ IF ~made
              THEN /\ stderr' = Append(WarnIfNothing(stderr, result),
                                       Diag("Could not create output directory", ""))
                   /\ UNCHANGED <<disk, stdout, out_files, manifest, args>>
              ELSE \E a \in ArgsRead, writable \in BOOLEAN :
                       \E d \in (IF writable THEN AskAll(disk, result.bibs) ELSE {disk}) :
                           /\ args' = a
                           /\ disk' = d
                           /\ out_files' =
                                  IF ~writable THEN <<>>
                                  ELSE BibliographyFile(d, result.bibs)
                                       @@ (IF a.per_folder THEN PerFolderFiles(d, result.visited)
                                           ELSE SingleFile(d, result.visited))
                           /\ manifest' = IF writable /\ a.manifest # "none"
                                          THEN ManifestOf(result, a.manifest) ELSE NoManifest
                           /\ stderr' = IF writable THEN WarnIfNothing(stderr, result)
                                        ELSE WriteErrors(WarnIfNothing(stderr, result),
                                                         Attempted(d, result, a))
                           /\ stdout' = stdout
                                  \o (IF writable /\ a.manifest # "none"
                                      THEN <<Printed("Manifest written", <<"manifest." \o a.manifest>>)>>
                                      ELSE <<>>)
                                  \o <<Printed("Export complete", <<>>)>>
    /\ pc' = "exit"
    /\ UNCHANGED <<entry_files, all_ignore_patterns, entry_idx, stack, visited_set,
                   processed_order, deps, bibs, images, result, opened, run, first,
                   budget, found_by>>

(***************************************************************************)
(* A further call of collect_dependencies on the same file system.         *)
(***************************************************************************)
\* the entries without those found not to be files
WithoutMissing(d, entries) ==
    SelectSeq(entries, LAMBDA e : LET entry_abs == AbsPath(PathJoin(Cwd, e))
                                  IN  entry_abs \notin DOMAIN d \/ d[entry_abs].isfile)

\* collect_dependencies(entries, all_ignore_patterns) is called again, with
\* the same entries or with the entries that are files; the state of the
\* traversal is created anew
Restart ==
    /\ pc = "collected"
    /\ run = 1
    /\ first' = [entry_files |-> entry_files, result |-> result, removed |-> {}]
    /\ entry_files' \in {entry_files, WithoutMissing(disk, entry_files)}
    /\ visited_set' = InitialVisited(visited_set)
    /\ processed_order' = <<>>
    /\ deps' = EmptyDict
    /\ bibs' = {}
    /\ images' = {}
    /\ entry_idx' = 1
    /\ stack' = <<>>
    /\ opened' = <<>>
    /\ found_by' = <<>>
    /\ run' = 2
    /\ pc' = "collect"
    /\ UNCHANGED <<disk, all_ignore_patterns, result, stderr, exit_status, dry_run,
                   output_written, stdout, out_files, manifest, args, budget>>

\* the documents found on disk that could not be read
Unreadable(d) == {p \in DOMAIN d : d[p].isfile /\ d[p].read /\ ~d[p].readable}

\* the file system without the file at path u
Unlink(d, u) ==
    [p \in DOMAIN d |-> IF p = u THEN [isfile |-> FALSE, read |-> FALSE,
                                       readable |-> FALSE, text |-> <<>>]
                        ELSE d[p]]

\* collect_dependencies(entries, all_ignore_patterns) is called again after
\* a document that could not be read has been taken off the disk
RestartWithout ==
    /\ pc = "collected"
    /\ run = 1
    /\ \E u \in Unreadable(disk) :
           /\ disk' = Unlink(disk, u)
           /\ first' = [entry_files |-> entry_files, result |-> result, removed |-> {u}]
    /\ visited_set' = InitialVisited(visited_set)
    /\ processed_order' = <<>>
    /\ deps' = EmptyDict
    /\ bibs' = {}
    /\ images' = {}
    /\ entry_idx' = 1
    /\ stack' = <<>>
    /\ opened' = <<>>
    /\ found_by' = <<>>
    /\ run' = 2
    /\ pc' = "collect"
    /\ UNCHANGED <<entry_files, all_ignore_patterns, result, stderr, exit_status, dry_run,
                   output_written, stdout, out_files, manifest, args, budget>>

(***************************************************************************)
(* Specifications.                                                         *)
(***************************************************************************)
NoResult == ReturnValue(<<>>, EmptyDict, {}, {})

\* main calls collect_dependencies with one of the entry lists and one of
\* the pattern lists
StartWith(entries, patterns, b) ==
    /\ disk = <<>>
    /\ entry_files \in entries
    /\ all_ignore_patterns \in patterns
    /\ entry_idx = 1
    /\ stack = <<>>
    /\ visited_set = InitialVisited({})
    /\ processed_order = <<>>
    /\ deps = EmptyDict
    /\ bibs = {}
    /\ images = {}
    /\ result = NoResult
    /\ stderr = <<>>
    /\ opened = <<>>
    /\ pc = "collect"
    /\ exit_status = -1
    /\ dry_run = FALSE
    /\ output_written = FALSE
    /\ stdout = <<>>
    /\ out_files = <<>>
    /\ manifest = NoManifest
    /\ args = NoArgs
    /\ run = 1
    /\ first = [entry_files |-> <<>>, result |-> NoResult, removed |-> {}]
    /\ budget = b
    /\ found_by = <<>>

Start(b) == StartWith(EntryLists, PatternLists, b)

Init == Start(MaxDirectives)

Resolve == EntryStep \/ IncludeStep \/ BibStep \/ ImageStep \/ Return

Next == Resolve \/ DryRun \/ WriteOutputs

\* the whole program
Spec == Init /\ [][Next]_vars

\* one call of collect_dependencies
SpecCollect == Init /\ [][Resolve]_vars

\* two calls of collect_dependencies, one after the other
InitTwice == Start(MaxDirectives - 1)

\* The whole run on documents with one directive less.
SpecExport == InitTwice /\ [][Next]_vars

NextTwice == Resolve \/ Restart

SpecTwice == InitTwice /\ [][NextTwice]_vars

\* Two calls on file systems that differ in one document: unreadable in the
\* first, absent in the second.
NextUnreadable == Resolve \/ RestartWithout

SpecUnreadable == InitTwice /\ [][NextUnreadable]_vars

\* The resolution of one reference: recurse has read a document whose text
\* is one inclusion directive, and the include loop handles it.
PathDocs == {"a.tex", "s/a.tex", "s/t/a.tex"}

PathRefs ==
    {"a", "b", "./a", "../a", "s/a", "t/b", "a.tex", "b.tex", "a.b", "a.tex.b",
     "s/../b", "../../a", "../../../a", "t/./a", "s//a", ".a", "a.", "..a", "..",
     "s/", "s.t/a", "../s/a", "../b.tex", "./../a.b"}

InitPath ==
    \E doc \in PathDocs, ref \in PathRefs :
        LET doc_abs == AbsPath(PathJoin(Cwd, doc))
            text == <<[cmd |-> "input", ref |-> ref]>>
            m0 == [disk |-> <<>>, entry_idx |-> 1, stack |-> <<>>, visited_set |-> InitialVisited({}),
                   processed_order |-> <<>>, deps |-> EmptyDict, bibs |-> {}, images |-> {},
                   stderr |-> <<>>, opened |-> <<>>, found_by |-> <<>>, crashed |-> FALSE]
            m == RecurseCall(m0, doc_abs, doc, TRUE, [readable |-> TRUE, text |-> text])
        IN  /\ entry_files = <<doc>>
            /\ all_ignore_patterns = <<>>
            /\ disk = m.disk
            /\ entry_idx = m.entry_idx
            /\ stack = m.stack
            /\ visited_set = m.visited_set
            /\ processed_order = m.processed_order
            /\ deps = m.deps
            /\ bibs = m.bibs
            /\ images = m.images
            /\ stderr = m.stderr
            /\ opened = m.opened
            /\ found_by = m.found_by
            /\ result = NoResult
            /\ pc = "collect"
            /\ exit_status = -1
            /\ dry_run = FALSE
            /\ output_written = FALSE
            /\ stdout = <<>>
            /\ out_files = <<>>
            /\ manifest = NoManifest
            /\ args = NoArgs
            /\ run = 1
            /\ first = [entry_files |-> <<>>, result |-> NoResult, removed |-> {}]
            /\ budget = 1

SpecPath == InitPath /\ [][IncludeStep]_vars

\* The resolution of a project whose document a.tex holds a reference to
\* another drive.
ForeignRefs == {"x:/a"}

HomeRefs == {"b", "../a"}

ForeignTexts ==
    {t \in SeqsUpTo({[cmd |-> "input", ref |-> r] : r \in ForeignRefs \cup HomeRefs}, 3) :
        \E k \in 1..Len(t) : t[k].ref \in ForeignRefs}

ForeignEntries == {<<"a.tex">>, <<"s/a.tex", "a.tex">>}

InitForeign ==
    /\ \E t \in ForeignTexts :
           disk = (AbsPath(PathJoin(Cwd, "a.tex")) :>
                       [isfile |-> TRUE, read |-> TRUE, readable |-> TRUE, text |-> t])
    /\ entry_files \in ForeignEntries
    /\ all_ignore_patterns \in PatternLists
    /\ entry_idx = 1
    /\ stack = <<>>
    /\ visited_set = InitialVisited({})
    /\ processed_order = <<>>
    /\ deps = EmptyDict
    /\ bibs = {}
    /\ images = {}
    /\ result = NoResult
    /\ stderr = <<>>
    /\ opened = <<>>
    /\ pc = "collect"
    /\ exit_status = -1
    /\ dry_run = FALSE
    /\ output_written = FALSE
    /\ stdout = <<>>
    /\ out_files = <<>>
    /\ manifest = NoManifest
    /\ args = NoArgs
    /\ run = 1
    /\ first = [entry_files |-> <<>>, result |-> NoResult, removed |-> {}]
    /\ budget = MaxDirectives
    /\ found_by = <<>>

SpecForeign == InitForeign /\ [][Resolve]_vars

\* print_tree on its own: the dry run of main on an adjacency map with at
\* most two entries, each a list of at most two of three paths: cycles,
\* self-edges, repeated children and children without an entry included.
TreeNodes == {"a.tex", "b.tex", "s/a.tex"}

TreeLists == SeqsUpTo(TreeNodes, 2)

TreeKeys == {k \in SeqsUpTo({"a.tex", "b.tex"}, 2) : NoRepeat(k)}

TreeRoots == {<<"a.tex">>, <<"b.tex", "a.tex">>, <<"a.tex", "a.tex">>}

InitTree ==
    /\ disk = [p \in {AbsPath(PathJoin(Cwd, n)) : n \in TreeNodes} |->
                   [isfile |-> TRUE, read |-> TRUE, readable |-> TRUE, text |-> <<>>]]
    /\ entry_files \in TreeRoots
    /\ all_ignore_patterns = <<>>
    /\ \E keys \in TreeKeys : \E val \in [Range(keys) -> TreeLists] :
           /\ deps = [keys |-> keys, val |-> val]
           /\ processed_order = keys
           /\ visited_set = Range(keys)
           /\ result = ReturnValue(keys, [keys |-> keys, val |-> val], {}, {})
    /\ entry_idx = Len(entry_files) + 1
    /\ stack = <<>>
    /\ bibs = {}
    /\ images = {}
    /\ stderr = <<>>
    /\ opened = <<>>
    /\ pc = "collected"
    /\ exit_status = -1
    /\ dry_run = FALSE
    /\ output_written = FALSE
    /\ stdout = <<>>
    /\ out_files = <<>>
    /\ manifest = NoManifest
    /\ args = NoArgs
    /\ run = 1
    /\ first = [entry_files |-> <<>>, result |-> NoResult, removed |-> {}]
    /\ budget = 0
    /\ found_by = <<>>

SpecTree == InitTree /\ [][DryRun]_vars

\* The exclusion test on its own: one entry without directives, and up to
\* two patterns.
MatchPaths == {"a.tex", "s/a.tex", "s/t/a.tex", "sa.tex", "b.tex", "../a.tex"}

MatchPatterns ==
    {"s/", "t/", "s", "s/t", "a.tex", "*.tex", "s/*", "*/a.tex", "?.tex", "[!a]*", "a*"}

InitMatch ==
    StartWith({<<e>> : e \in MatchPaths}, SeqsUpTo(MatchPatterns, 2), 0)

NextMatch == EntryStep \/ Return

SpecMatch == InitMatch /\ [][NextMatch]_vars

\* The bibliography and image loops of one call: recurse has read a
\* document whose text names a bibliography, an image, or both.
LeafBibRefs == {"r", "r.bib", "./r", "../r", "s/r", "t/r.bib", "s/../r", "../../r.bib"}

LeafImageRefs == {"i.png", "./i.png", "../i.png", "t/i.png", "s/../i.png", "../../i", "..", "s//i.png"}

LeafTexts ==
    {<<[cmd |-> "bibliography", ref |-> b]>> : b \in LeafBibRefs}
    \cup {<<[cmd |-> "includegraphics", ref |-> g]>> : g \in LeafImageRefs}
    \cup {<<[cmd |-> "bibliography", ref |-> b], [cmd |-> "includegraphics", ref |-> g]>> :
              b \in LeafBibRefs, g \in LeafImageRefs}

LeafPatterns == {<<>>, <<"s/">>}

InitLeaf ==
    \E doc \in PathDocs, text \in LeafTexts :
        LET doc_abs == AbsPath(PathJoin(Cwd, doc))
            m0 == [disk |-> <<>>, entry_idx |-> 1, stack |-> <<>>, visited_set |-> InitialVisited({}),
                   processed_order |-> <<>>, deps |-> EmptyDict, bibs |-> {}, images |-> {},
                   stderr |-> <<>>, opened |-> <<>>, found_by |-> <<>>, crashed |-> FALSE]
            m == RecurseCall(m0, doc_abs, doc, TRUE, [readable |-> TRUE, text |-> text])
        IN  /\ entry_files = <<doc>>
            /\ all_ignore_patterns \in LeafPatterns
            /\ disk = m.disk
            /\ entry_idx = m.entry_idx
            /\ stack = Settle(m.disk, m.stack)
            /\ visited_set = m.visited_set
            /\ processed_order = m.processed_order
            /\ deps = m.deps
            /\ bibs = m.bibs
            /\ images = m.images
            /\ stderr = m.stderr
            /\ opened = m.opened
            /\ found_by = m.found_by
            /\ result = NoResult
            /\ pc = "collect"
            /\ exit_status = -1
            /\ dry_run = FALSE
            /\ output_written = FALSE
            /\ stdout = <<>>
            /\ out_files = <<>>
            /\ manifest = NoManifest
            /\ args = NoArgs
            /\ run = 1
            /\ first = [entry_files |-> <<>>, result |-> NoResult, removed |-> {}]
            /\ budget = 2

NextLeaf == BibStep \/ ImageStep \/ Return

SpecLeaf == InitLeaf /\ [][NextLeaf]_vars

(***************************************************************************)
(* What the properties speak of, stated over the file system as far as the *)
(* run has seen it.  A file the run never asked about may exist.           *)
(***************************************************************************)
NoDup(list) == \A i, j \in 1..Len(list) : list[i] = list[j] => i = j

AbsOf(rel) == AbsPath(PathJoin(Cwd, rel))

MayExist(rel) == AbsOf(rel) \notin DOMAIN disk \/ disk[AbsOf(rel)].isfile

KnownMissing(rel) == AbsOf(rel) \in DOMAIN disk /\ ~disk[AbsOf(rel)].isfile

Excluded(rel) == matches_any(rel, all_ignore_patterns)

\* a document the resolution may record
Node(rel) == MayExist(rel) /\ ~Excluded(rel)

IsReadable(rel) ==
    /\ AbsOf(rel) \in DOMAIN disk
    /\ disk[AbsOf(rel)].read
    /\ disk[AbsOf(rel)].readable

\* the inclusion references of a document, in the order of its text
IncludeRefsOf(rel) == IF IsReadable(rel) THEN INCLUDE_REGEX(disk[AbsOf(rel)].text) ELSE <<>>

\* the documents they denote
IncludeTargets(rel) ==
    LET refs == IncludeRefsOf(rel)
    IN  [k \in 1..Len(refs) |-> ChildOf(AbsOf(rel), refs[k]).rel]

EntryRel(k) == RelPath(AbsOf(entry_files[k]), Cwd)

\* the documents reachable from those of S through readable documents
RECURSIVE Reach(_)
Reach(S) ==
    LET more == S \cup {c \in UNION {Range(IncludeTargets(r)) : r \in S} : Node(c)}
    IN  IF more = S THEN S ELSE Reach(more)

ClosureOf(k) == IF Node(EntryRel(k)) THEN Reach({EntryRel(k)}) ELSE {}

Closure == UNION {ClosureOf(k) : k \in 1..Len(entry_files)}

\* the documents a document reaches by one inclusion or more
Below(rel) == Reach({c \in Range(IncludeTargets(rel)) : Node(c)})

OnCycle(rel) == Node(rel) /\ rel \in Below(rel)

Count(list, x) == Cardinality({i \in 1..Len(list) : list[i] = x})

\* the directives of its document a call of recurse has still to handle
PendingIn(f) ==
    LET text == disk[f.path_abs].text
    IN  CASE f.loop = "include" -> Len(text) - (f.i - 1)
          [] f.loop = "bib" -> Len(text) - Len(INCLUDE_REGEX(text)) - (f.i - 1)
          [] f.loop = "graphics" -> Len(GRAPHICS_REGEX(text)) - (f.i - 1)
          [] OTHER -> 0

RECURSIVE PendingOnStack(_)
PendingOnStack(st) ==
    IF st = <<>> THEN 0 ELSE PendingIn(Head(st)) + PendingOnStack(Tail(st))

\* the work done: entries taken, documents recorded, directives handled
Work ==
    (entry_idx - 1) + Len(processed_order) + (Used(disk) - PendingOnStack(stack))
    + (IF pc = "collect" THEN 0 ELSE 1)

\* the call can take a step
CanResolve ==
    MoreEntries \/ InLoop("include") \/ InLoop("bib") \/ InLoop("graphics") \/ EntriesDone

\* every entry may be recorded and every directive may record a document
WorkBound == 2 * Len(entry_files) + 2 * budget + 1

\* depth-first pre-order: a document, then the subtree of each of its
\* inclusions in turn, what is recorded already left out
RECURSIVE Visit(_, _), VisitEach(_, _)
Visit(order, rel) ==
    IF rel \in Range(order) \/ ~Node(rel) THEN order
    ELSE VisitEach(Append(order, rel), IncludeTargets(rel))

VisitEach(order, targets) ==
    IF targets = <<>> THEN order
    ELSE VisitEach(Visit(order, Head(targets)), Tail(targets))

PreOrder == VisitEach(<<>>, [k \in 1..Len(entry_files) |-> EntryRel(k)])

\* Path resolution, segment by segment.
Segments(p) == SelectSeq(Split(p, "/"), LAMBDA x : x # "" /\ x # ".")

\* from the directory `at` (its segments below the file-system root) follow
\* the segments; the parent of the file-system root is the root
RECURSIVE Walk(_, _)
Walk(at, segs) ==
    IF segs = <<>> THEN at
    ELSE IF Head(segs) = ".."
        THEN Walk(IF at = <<>> THEN at ELSE SubSeq(at, 1, Len(at) - 1), Tail(segs))
    ELSE Walk(Append(at, Head(segs)), Tail(segs))

\* a place as the project root sees it
FromRoot(at) ==
    LET root == Segments(Cwd)
        i == CommonLen(root, at)
    IN  JoinWith([k \in 1..(Len(root) - i) |-> ".."] \o SubSeq(at, i + 1, Len(at)), "/")

\* the last name of the reference has a dot after a character that is not a dot
HasExtension(ref) ==
    LET names == Split(ref, "/")
        name == names[Len(names)]
    IN  \E i \in 2..Len(name) :
            Ch(name, i) = "." /\ \E j \in 1..(i - 1) : Ch(name, j) # "."

ContainingDir(doc) ==
    LET segs == Segments(doc)
    IN  Walk(Segments(Cwd), SubSeq(segs, 1, Len(segs) - 1))

ExpectedChild(doc, ref) ==
    FromRoot(Walk(ContainingDir(doc),
                  Segments(IF HasExtension(ref) THEN ref ELSE ref \o ".tex")))

\* the same reference taken from the project root
RootChild(ref) ==
    FromRoot(Walk(Segments(Cwd), Segments(IF HasExtension(ref) THEN ref ELSE ref \o ".tex")))

\* Bibliography and image references, segment by segment.
\* the project-relative name of a place; the project root itself is "."
Place(at, p) ==
    LET rel == FromRoot(Walk(at, Segments(p)))
    IN  IF rel = "" THEN "." ELSE rel

\* the absolute path of a place
AbsPlace(at, p) == "/" \o JoinWith(Walk(at, Segments(p)), "/")

\* the path is nowhere in what collect_dependencies returned as documents
NotADocument(r, path) ==
    /\ path \notin Range(r.visited) \cup Range(r.deps.keys)
    /\ \A k \in Range(r.deps.keys) : path \notin Range(r.deps.val[k])

Recorded(path) == IF Excluded(path) THEN <<>> ELSE <<path>>

\* the name after the last separator of a path
FinalSegment(path) == LET names == Split(path, "/") IN names[Len(names)]

IsPrefix(pre, str) == Len(pre) <= Len(str) /\ SubSeq(str, 1, Len(pre)) = pre

\* the pattern names a directory when it ends with a separator
DirectoryPattern(pat) == pat # "" /\ Ch(pat, Len(pat)) = "/"

\* the three ways a pattern excludes a path
ExcludedBy(path, pat) ==
    \/ FnMatch(path, pat)
    \/ FnMatch(FinalSegment(path), pat)
    \/ (DirectoryPattern(pat) /\ IsPrefix(pat, path))

IsFileKnown(rel) == AbsOf(rel) \in DOMAIN disk /\ disk[AbsOf(rel)].isfile

HasBibSuffix(ref) == Len(ref) >= 4 /\ SubSeq(ref, Len(ref) - 3, Len(ref)) = ".bib"

BibName(ref) == IF HasBibSuffix(ref) THEN ref ELSE ref \o ".bib"

BibHere(doc, ref) == Place(ContainingDir(doc), BibName(ref))

BibAtRoot(ref) == Place(Segments(Cwd), BibName(ref))

\* the path a bibliography reference of a document is to be recorded under
BibExpected(doc, ref) ==
    IF IsFileKnown(BibHere(doc, ref)) THEN BibHere(doc, ref)
    ELSE IF IsFileKnown(BibAtRoot(ref)) THEN BibAtRoot(ref)
    ELSE BibName(ref)

ImageExpected(doc, ref) == Place(ContainingDir(doc), ref)

BibRefsOf(rel) == IF IsReadable(rel) THEN BIB_REGEX(disk[AbsOf(rel)].text) ELSE <<>>

ImageRefsOf(rel) == IF IsReadable(rel) THEN GRAPHICS_REGEX(disk[AbsOf(rel)].text) ELSE <<>>

(***************************************************************************)
(* Properties.                                                             *)
(***************************************************************************)
Collected == pc = "collected"

\* C1: when collect_dependencies returns, the visited order holds exactly
\* the existing, non-excluded documents reachable from an existing,
\* non-excluded entry through existing, readable, non-excluded documents.
C1_ClosureExact == Collected => Range(result.visited) = Closure

\* C1 happens: a recorded document includes another recorded document, and
\* a reference to a file that is not on disk was followed.
C1_Witness ==
    /\ Collected
    /\ Len(result.visited) >= 2
    /\ \E r \in Range(result.visited) : \E c \in Range(IncludeTargets(r)) :
           KnownMissing(c) /\ ~Excluded(c)
    /\ \E r \in Range(result.visited) : \E c \in Range(IncludeTargets(r)) :
           c # r /\ c \in Range(result.visited)

\* C2: in every state, and in what collect_dependencies returns, no path
\* the patterns match is in the visited order, a key of the adjacency map,
\* in one of its value lists, in the bibliographies or in the images.
C2_ExclusionConsistent ==
    /\ \A p \in Range(processed_order) \cup Range(deps.keys) \cup bibs \cup images : ~Excluded(p)
    /\ \A k \in Range(deps.keys) : \A c \in Range(deps.val[k]) : ~Excluded(c)
    /\ Collected =>
           /\ \A p \in Range(result.visited) \cup Range(result.deps.keys)
                       \cup Range(result.bibs) \cup Range(result.images) : ~Excluded(p)
           /\ \A k \in Range(result.deps.keys) : \A c \in Range(result.deps.val[k]) : ~Excluded(c)

\* C2 happens: a recorded document includes an excluded document and
\* names an excluded image and an excluded bibliography.
C2_Witness ==
    /\ Collected
    /\ \E r \in Range(result.visited) :
           /\ \E c \in Range(IncludeTargets(r)) : Excluded(c)
           /\ GRAPHICS_REGEX(disk[AbsOf(r)].text) # <<>>
           /\ BIB_REGEX(disk[AbsOf(r)].text) # <<>>
           /\ result.images = <<>>
           /\ result.bibs = <<>>

\* C3: in every state the visited order holds each path at most once and
\* each value list of the adjacency map holds each child at most once.
C3_NoDuplicates ==
    /\ NoDup(processed_order)
    /\ \A k \in Range(deps.keys) : NoDup(deps.val[k])

\* C3 happens: a document that was handled to its end refers to one child
\* by two different spellings.
C3_Witness ==
    /\ Collected
    /\ \E r \in Range(result.visited) :
           \E i, j \in 1..Len(IncludeRefsOf(r)) :
               /\ IncludeRefsOf(r)[i] # IncludeRefsOf(r)[j]
               /\ IncludeTargets(r)[i] = IncludeTargets(r)[j]
               /\ IncludeTargets(r)[i] \in Range(result.deps.val[r])

\* C4: collect_dependencies terminates: until it has returned it can take
\* a step, every step adds to the work done, and the work is bounded by
\* the entries and directives there are; every document on an inclusion
\* cycle is then in the visited order exactly once.
C4_TerminatesOnCycles ==
    /\ [](Collected \/ CanResolve)
    /\ [][Work' > Work]_vars
    /\ [](Work <= WorkBound)
    /\ [](Collected => \A r \in Closure : OnCycle(r) => Count(result.visited, r) = 1)

\* C4 happens: the call has returned from a cycle through three documents.
C4_Witness ==
    /\ Collected
    /\ \E r \in Range(result.visited) :
           /\ OnCycle(r)
           /\ Cardinality(Below(r)) >= 3
           /\ \A c \in Below(r) : r \in Below(c)

\* C5: a second call with the same entries and patterns on the same file
\* system returns what the first call returned.
C5_Idempotent ==
    (Collected /\ run = 2 /\ entry_files = first.entry_files) => result = first.result

\* C5 happens: the second call has returned two documents and a bibliography.
C5_Witness ==
    /\ Collected
    /\ run = 2
    /\ entry_files = first.entry_files
    /\ Len(result.visited) >= 2
    /\ result.bibs # <<>>

\* C6: the child of an inclusion reference is the project-relative path of
\* the reference taken from the directory of the including document, with
\* ".tex" appended exactly when the reference has no extension; it is the
\* file the resolver asks the file system about.
C6_RelativeResolution ==
    stack = <<>> =>
        LET doc == entry_files[1]
            ref == disk[AbsOf(doc)].text[1].ref
            child == ExpectedChild(doc, ref)
        IN  /\ deps.val[doc] = <<child>>
            /\ child # doc => AbsOf(child) \in DOMAIN disk
            /\ DOMAIN disk \subseteq {AbsOf(doc), AbsOf(child)}

\* C6 happens: a reference without extension in a document of a
\* subdirectory, which from the project root would denote another file.
C6_Witness ==
    /\ stack = <<>>
    /\ entry_files = <<"s/t/a.tex">>
    /\ deps.val["s/t/a.tex"] = <<"s/b.tex">>
    /\ RootChild(disk[AbsOf("s/t/a.tex")].text[1].ref) # "s/b.tex"

\* C7: the visited order is the depth-first pre-order of the traversal,
\* the entries taken in the order given.
C7_DepthFirstPreOrder == Collected => result.visited = PreOrder

\* C7 happens: the first document has two inclusions, and the child of the
\* first inclusion has a child, recorded before the child of the second.
C7_Witness ==
    /\ Collected
    /\ Len(result.visited) = 4
    /\ LET v == result.visited
       IN  /\ Len(IncludeTargets(v[1])) = 2
           /\ v[2] = IncludeTargets(v[1])[1]
           /\ v[3] \in Range(IncludeTargets(v[2]))
           /\ v[4] = IncludeTargets(v[1])[2]

\* C8: the entries share one visited set: a document is recorded once and
\* read once, under the first supplied entry whose closure holds it, and
\* the documents of an earlier entry precede those of a later one.
C8_SharedVisitedSet ==
    Collected =>
        /\ NoDup(result.visited)
        /\ NoDup(opened)
        /\ DOMAIN found_by = Range(result.visited)
        /\ \A k \in 1..Len(entry_files) :
               LET closure == ClosureOf(k)
               IN  /\ \A r \in closure : r \in DOMAIN found_by /\ found_by[r] <= k
                   /\ \A r \in DOMAIN found_by : found_by[r] = k => r \in closure
        /\ \A i, j \in 1..Len(result.visited) :
               i < j => found_by[result.visited[i]] <= found_by[result.visited[j]]

\* C8 happens: the second entry is a descendant of the first.
C8_Witness ==
    /\ Collected
    /\ Len(entry_files) = 2
    /\ EntryRel(2) # EntryRel(1)
    /\ EntryRel(2) \in Range(result.visited)
    /\ found_by[EntryRel(2)] = 1
    /\ EntryRel(2) \in Range(opened)

\* C9: an entry that is not a file is reported on stderr, and the call
\* returns what a call without the missing entries returns.
C9_MissingEntrySkipped ==
    /\ run = 1 =>
           \A k \in 1..(entry_idx - 1) :
               KnownMissing(entry_files[k]) =>
                   Diag("Entry file not found", entry_files[k]) \in Range(stderr)
    /\ (Collected /\ run = 2 /\ entry_files # first.entry_files) => result = first.result

\* C9 happens: the first of two entries is missing and the second resolves.
C9_Witness ==
    /\ Collected
    /\ run = 2
    /\ Len(first.entry_files) = 2
    /\ entry_files = <<first.entry_files[2]>>
    /\ KnownMissing(first.entry_files[1])
    /\ Len(result.visited) >= 2

AllEntriesMissing == \A k \in 1..Len(entry_files) : KnownMissing(entry_files[k])

\* C10: when no supplied entry is a file, the run ends with a non-zero
\* status and writes no output.
C10_AllMissingIsFatal ==
    (pc = "exit" /\ AllEntriesMissing) => (exit_status # 0 /\ ~output_written)

\* C11: a non-excluded referenced document that is not on disk is in the
\* visited set, is not read, is not recorded and has no adjacency entry,
\* and the parent's later inclusions, its bibliographies and its images
\* are handled all the same.
C11_MissingReferenceSkipped ==
    Collected =>
        \A r \in Range(opened) : \A i \in 1..Len(IncludeTargets(r)) :
            LET c == IncludeTargets(r)[i]
            IN  (KnownMissing(c) /\ ~Excluded(c)) =>
                    /\ c \in visited_set
                    /\ ~disk[AbsOf(c)].read
                    /\ c \notin Range(opened) \cup Range(result.visited) \cup Range(result.deps.keys)
                    /\ \A j \in (i + 1)..Len(IncludeTargets(r)) :
                           Node(IncludeTargets(r)[j]) =>
                               IncludeTargets(r)[j] \in Range(result.visited)
                    /\ \A k \in 1..Len(BibRefsOf(r)) :
                           LET b == BibExpected(r, BibRefsOf(r)[k])
                           IN  ~Excluded(b) => b \in Range(result.bibs)
                    /\ \A k \in 1..Len(ImageRefsOf(r)) :
                           LET im == ImageExpected(r, ImageRefsOf(r)[k])
                           IN  ~Excluded(im) => im \in Range(result.images)

\* C11 happens: a document includes a missing file, then a file that is
\* recorded, and names an image that is recorded.
C11_Witness ==
    /\ Collected
    /\ result.images # <<>>
    /\ \E r \in Range(opened) : \E i, j \in 1..Len(IncludeTargets(r)) :
           /\ i < j
           /\ KnownMissing(IncludeTargets(r)[i])
           /\ ~Excluded(IncludeTargets(r)[i])
           /\ IncludeTargets(r)[j] # r
           /\ IncludeTargets(r)[j] \in Range(result.visited)
           /\ ImageRefsOf(r) # <<>>

\* the sequence without the paths taken off the disk
StillThere(paths) == SelectSeq(paths, LAMBDA p : AbsOf(p) \notin first.removed)

\* C12 (as stated): with a document absent instead of unreadable, the
\* resolver returns the same visitedOrder, adjacency, bibs and images.
C12_UnreadableAsMissing ==
    (Collected /\ run = 2 /\ first.removed # {}) => result = first.result

\* C12 (amended): an unreadable document is appended to visitedOrder and
\* gets an empty adjacency entry, which an absent one does not; apart from
\* that entry the two results are the same.
C12_UnreadableIsListed ==
    (Collected /\ run = 2 /\ first.removed # {}) =>
        /\ \A p \in Range(first.result.visited) :
               AbsOf(p) \in first.removed => first.result.deps.val[p] = <<>>
        /\ \E p \in Range(first.result.visited) : AbsOf(p) \in first.removed
        /\ result.visited = StillThere(first.result.visited)
        /\ result.deps.keys = StillThere(first.result.deps.keys)
        /\ \A k \in Range(result.deps.keys) : result.deps.val[k] = first.result.deps.val[k]
        /\ result.bibs = first.result.bibs
        /\ result.images = first.result.images

\* C12 happens: a document that could not be read was listed beside another
\* document, and the call without it has returned.
C12_Witness ==
    /\ Collected
    /\ run = 2
    /\ first.removed # {}
    /\ Len(first.result.visited) >= 2
    /\ Len(result.visited) >= 1
    /\ result.images # <<>>


\* C13: a bibliography reference is looked up in the document's directory
\* first and at the project root only when it is not a file there; when it
\* is found the entry is the project-relative path of the file, ".bib"
\* appended to a reference that lacks it; the bibliography is never read
\* and is neither in visitedOrder nor in the adjacency.
C13_BibliographyLookup ==
    Collected =>
        LET doc == entry_files[1]
        IN  /\ Range(opened) = {doc}
            /\ \A k \in 1..Len(BibRefsOf(doc)) :
                   LET ref == BibRefsOf(doc)[k]
                       here == AbsPlace(ContainingDir(doc), BibName(ref))
                       root == AbsPlace(Segments(Cwd), BibName(ref))
                   IN  /\ here \in DOMAIN disk
                       /\ ~disk[here].read
                       /\ (disk[here].isfile /\ root # here) => root \notin DOMAIN disk
                       /\ disk[here].isfile => result.bibs = Recorded(BibHere(doc, ref))
                       /\ ~disk[here].isfile =>
                              /\ root \in DOMAIN disk
                              /\ ~disk[root].read
                              /\ disk[root].isfile => result.bibs = Recorded(BibAtRoot(ref))
                       /\ \A b \in Range(result.bibs) : NotADocument(result, b)

\* C13 happens: a document two directories down names a bibliography
\* without ".bib" that is a file at the project root only.
C13_Witness ==
    /\ Collected
    /\ entry_files = <<"s/t/a.tex">>
    /\ \E k \in 1..Len(BibRefsOf("s/t/a.tex")) :
           LET ref == BibRefsOf("s/t/a.tex")[k]
           IN  /\ ~HasBibSuffix(ref)
               /\ KnownMissing(BibHere("s/t/a.tex", ref))
               /\ IsFileKnown(BibAtRoot(ref))
               /\ BibAtRoot(ref) # BibHere("s/t/a.tex", ref)
               /\ result.bibs = <<BibAtRoot(ref)>>

\* the bibliography reference of the document is a file at neither place
Unresolved(doc, ref) == KnownMissing(BibHere(doc, ref)) /\ KnownMissing(BibAtRoot(ref))

C16_ExclusionTest ==
    Collected =>
        LET path == entry_files[1]
            pats == all_ignore_patterns
            hit == \E k \in 1..Len(pats) : ExcludedBy(path, pats[k])
        IN  /\ IsFileKnown(path) => (path \in Range(result.visited) <=> ~hit)
            /\ hit => AbsOf(path) \notin DOMAIN disk \/ ~disk[AbsOf(path)].read
            /\ matches_any(path, pats) = hit
            /\ ~matches_any(path, <<>>)
            /\ matches_any(path, Reverse(pats)) = matches_any(path, pats)

\* C16 happens: of two patterns the first does not apply and the second
\* matches the final segment only, and the entry, a file, is left out.
C16_Witness ==
    /\ Collected
    /\ Len(all_ignore_patterns) = 2
    /\ IsFileKnown(entry_files[1])
    /\ result.visited = <<>>
    /\ ~ExcludedBy(entry_files[1], all_ignore_patterns[1])
    /\ ~FnMatch(entry_files[1], all_ignore_patterns[2])
    /\ ~IsPrefix(all_ignore_patterns[2], entry_files[1])
    /\ FnMatch(FinalSegment(entry_files[1]), all_ignore_patterns[2])

\* the run has ended
Exited == pc = "exit"

\* the lines of the printed tree that show the path for the first time
FirstShown(tree, path) == {k \in 1..Len(tree.items) : tree.items[k].node = path /\ ~tree.items[k].seen}

\* C17: a dry run prints the dependency tree and the lists of documents,
\* bibliographies and images of the resolution, creates no output
\* directory, writes no file and ends with status 0.
C17_DryRunWritesNothing ==
    (Exited /\ dry_run) =>
        /\ exit_status = 0
        /\ ~output_written
        /\ out_files = <<>>
        /\ ~manifest.written
        /\ Len(stdout) = 6
        /\ stdout[3] = Printed("Files to be exported", result.visited)
        /\ stdout[4] = Printed(".bib files referenced", result.bibs)
        /\ stdout[5] = Printed("Images referenced", result.images)
        /\ IF stdout[2].kind = "Dependency tree"
           THEN \A p \in Range(result.visited) : Cardinality(FirstShown(stdout[2], p)) = 1
           ELSE result.visited = <<>>

\* C17 happens: a dry run has printed a tree of two documents and a
\* bibliography or an image.
C17_Witness ==
    /\ Exited
    /\ dry_run
    /\ Len(result.visited) >= 2
    /\ result.bibs \o result.images # <<>>
    /\ stdout[2].kind = "Dependency tree"
    /\ Len(stdout[2].items) >= 2

\* write_outputs has made the output directory
Exported == Exited /\ ~dry_run /\ output_written

WriteFailed(name) == \E k \in 1..Len(stderr) : stderr[k] = Diag("Could not write output file", name)

AnyWriteFailed == \E k \in 1..Len(stderr) : stderr[k].kind = "Could not write output file"

\* the sections of a file of the output directory, none if it is not there
SectionsOf(name) == IF name \in DOMAIN out_files THEN out_files[name] ELSE <<>>

\* the visited paths that are files
VisitedFiles == SelectSeq(result.visited, IsFileKnown)

\* C18 (as stated): in single-file mode full-project.txt holds one section
\* for each visited path that is a file, in visited order, each with the
\* content of the file.
C18_SingleFileVerbatim ==
    (Exported /\ ~args.per_folder /\ "full-project.txt" \in DOMAIN out_files) =>
        out_files["full-project.txt"] =
            [k \in 1..Len(VisitedFiles) |->
                [kind |-> "File", path |-> VisitedFiles[k], ok |-> TRUE,
                 text |-> disk[AbsOf(VisitedFiles[k])].text]]

\* C18 (amended): in single-file mode full-project.txt, unless it cannot be
\* opened for writing, holds one section for each visited path that is a
\* file, in visited order, each with the content of the file if the file
\* can be read and with an error line if it cannot.
C18_SingleFileSections ==
    (Exported /\ ~args.per_folder) =>
        /\ DOMAIN out_files \subseteq {"full-project.txt", "bibliography.txt"}
        /\ "full-project.txt" \in DOMAIN out_files \/ WriteFailed("full-project.txt")
        /\ "full-project.txt" \in DOMAIN out_files =>
               out_files["full-project.txt"] =
                   [k \in 1..Len(VisitedFiles) |->
                       [kind |-> "File", path |-> VisitedFiles[k],
                        ok |-> IsReadable(VisitedFiles[k]),
                        text |-> IF IsReadable(VisitedFiles[k])
                                 THEN disk[AbsOf(VisitedFiles[k])].text ELSE <<>>]]

\* C18 happens: full-project.txt has the sections of two documents, one of
\* which could not be read.
C18_Witness ==
    /\ Exported
    /\ ~args.per_folder
    /\ Len(SectionsOf("full-project.txt")) = 2
    /\ SectionsOf("full-project.txt")[1].ok
    /\ SectionsOf("full-project.txt")[1].text # <<>>
    /\ ~SectionsOf("full-project.txt")[2].ok

\* C19: a bibliography path that is not a file has no section in
\* bibliography.txt and is listed in the manifest all the same; every
\* bibliography path that is a file has one section.
C19_BibliographySections ==
    (Exported /\ ~AnyWriteFailed) =>
        LET found == SelectSeq(result.bibs, IsFileKnown)
            sections == SectionsOf("bibliography.txt")
        IN  /\ \A b \in Range(result.bibs) : AbsOf(b) \in DOMAIN disk
            /\ [k \in 1..Len(sections) |-> sections[k].path] = found
            /\ \A k \in 1..Len(sections) : sections[k].kind = "Bib"
            /\ found # <<>> <=> "bibliography.txt" \in DOMAIN out_files
            /\ args.manifest = "json" =>
                   (manifest.written /\ manifest.bibs = result.bibs)

\* C19 happens: of two bibliographies one is a file and one is not, the
\* manifest lists both and bibliography.txt has one section.
C19_Witness ==
    /\ Exported
    /\ manifest.written
    /\ Len(manifest.bibs) = 2
    /\ Len(SectionsOf("bibliography.txt")) = 1
    /\ \E b \in Range(result.bibs) : KnownMissing(b)

\* the output file of the folder of a path: "_" for the project root, the
\* separators of the folder replaced by "_"
FolderFile(path) ==
    LET names == Split(path, "/")
        folder == SubSeq(names, 1, Len(names) - 1)
    IN  (IF folder = <<>> THEN "_" ELSE JoinWith(folder, "_")) \o ".txt"

\* the places a path has a section at
SectionsFor(path) ==
    {<<name, k>> \in UNION {{name} \X (1..Len(out_files[name])) : name \in DOMAIN out_files} :
        out_files[name][k].kind = "File" /\ out_files[name][k].path = path}

\* C20: in per-folder mode every visited path that is a file has its
\* section in exactly one output file, the one named after its folder, and
\* there is no output file for a folder without such a path.
C20_PerFolderFiles ==
    (Exported /\ args.per_folder /\ ~AnyWriteFailed) =>
        /\ \A p \in Range(VisitedFiles) :
               \E k \in 1..Len(SectionsOf(FolderFile(p))) : SectionsFor(p) = {<<FolderFile(p), k>>}
        /\ DOMAIN out_files \ {"bibliography.txt"} = {FolderFile(p) : p \in Range(VisitedFiles)}

\* C20 happens: the documents of two folders, one of them two directories
\* down, have been written to two files.
C20_Witness ==
    /\ Exported
    /\ args.per_folder
    /\ "s_s.txt" \in DOMAIN out_files
    /\ "s.txt" \in DOMAIN out_files
    /\ Len(result.visited) = 2

\* C21: when the output directory cannot be made or an output file cannot
\* be written, the run ends with a status that is not 0.
C21_PersistFailureIsFatal ==
    (Exited /\ ~dry_run /\ (~output_written \/ AnyWriteFailed)) => exit_status # 0

Reported(kind, path) == \E k \in 1..Len(stderr) : stderr[k] = Diag(kind, path)

\* the missing files, the unreadable documents and the missing entries
\* each have their diagnostic
FilesReported ==
    /\ \A c \in visited_set : KnownMissing(c) => Reported("Referenced file not found", c)
    /\ \A p \in Range(processed_order) :
           (p \notin Range(opened) /\ (stack = <<>> \/ stack[Len(stack)].rel_path # p))
               => Reported("Could not read file", p)
    /\ \A k \in 1..Len(entry_files) :
           (k < entry_idx /\ KnownMissing(entry_files[k]))
               => Reported("Entry file not found", entry_files[k])
    /\ Collected =>
           \A r \in Range(opened) : \A k \in 1..Len(IncludeRefsOf(r)) :
               LET c == IncludeTargets(r)[k]
               IN  (~RelpathRaises(IncludeRefsOf(r)[k]) /\ KnownMissing(c) /\ ~Excluded(c))
                       => Reported("Referenced file not found", c)

\* the references of the documents read that cannot be made relative
Unnormalized ==
    UNION {{ref \in Range(IncludeRefsOf(r)) : RelpathRaises(ref)} : r \in Range(opened)}

ChildrenUpTo(rel, n) ==
    LET refs == IncludeRefsOf(rel)
        kept == SelectSeq([k \in 1..n |-> k],
                          LAMBDA k : /\ ~RelpathRaises(refs[k])
                                     /\ ~Excluded(IncludeTargets(rel)[k])
                                     /\ \A j \in 1..(k - 1) :
                                            IncludeTargets(rel)[j] # IncludeTargets(rel)[k])
    IN  [i \in 1..Len(kept) |-> IncludeTargets(rel)[kept[i]]]

AllChildren(rel) == ChildrenUpTo(rel, Len(IncludeRefsOf(rel)))

\* the number of inclusion directives a call of recurse has dealt with
DirectivesDone(f) ==
    IF f.loop = "include" THEN f.i - 1 ELSE Len(IncludeRefsOf(f.rel_path))

\* C23 (as stated): while a child of a document is being processed, the
\* adjacency list of the document holds every non-excluded child the
\* document references.
C23_EdgesBeforeRecursion ==
    \A j \in 2..Len(stack) :
        deps.val[stack[j - 1].rel_path] = AllChildren(stack[j - 1].rel_path)

\* C23 (amended): while a child of a document is being processed, the
\* adjacency list of the document holds the children of the directives up
\* to the one that led to the child, and no child of a later directive; the
\* list is complete when the call for the document returns.
C23_EdgesAtDiscovery ==
    /\ \A j \in 1..Len(stack) :
           deps.val[stack[j].rel_path] = ChildrenUpTo(stack[j].rel_path, DirectivesDone(stack[j]))
    /\ Collected =>
           \A p \in Range(result.deps.keys) : result.deps.val[p] = AllChildren(p)

\* C23 happens: a child is being processed while the adjacency list of its
\* parent still lacks the child of a later directive.
C23_Witness ==
    /\ Len(stack) >= 2
    /\ Len(AllChildren(stack[1].rel_path)) = 2
    /\ deps.val[stack[1].rel_path] = <<AllChildren(stack[1].rel_path)[1]>>
    /\ stack[2].rel_path = AllChildren(stack[1].rel_path)[1]

\* C24: a referenced document that is not excluded and is not a file is a
\* child in the adjacency list of the document that references it, is not
\* in visitedOrder and has no adjacency entry of its own.
C24_MissingChildIsEdge ==
    Collected =>
        \A r \in Range(opened) : \A c \in Range(AllChildren(r)) :
            KnownMissing(c) =>
                /\ c \in Range(result.deps.val[r])
                /\ c \notin Range(result.visited)
                /\ c \notin Range(result.deps.keys)
                /\ c \notin DOMAIN result.deps.val

\* C24 happens: a document has two children, the first of which is not a
\* file, and both are in its adjacency list.
C24_Witness ==
    /\ Collected
    /\ \E r \in Range(opened) :
           /\ Len(result.deps.val[r]) = 2
           /\ KnownMissing(result.deps.val[r][1])
           /\ result.deps.val[r][2] \in Range(result.visited)

\* the inclusion targets of a document that a directive can make a child
KeptTargets(rel) ==
    {IncludeTargets(rel)[k] : k \in {j \in 1..Len(IncludeRefsOf(rel)) :
                                        ~RelpathRaises(IncludeRefsOf(rel)[j])}}
        \ {c \in Range(IncludeTargets(rel)) : Excluded(c)}

\* the position of the first directive of the document that denotes c
FirstDirective(rel, c) ==
    CHOOSE k \in 1..Len(IncludeTargets(rel)) :
        IncludeTargets(rel)[k] = c /\ \A j \in 1..(k - 1) : IncludeTargets(rel)[j] # c

\* C25: the adjacency list of a document holds its non-excluded children,
\* each once, in the order of their first inclusion directive; a repeated
\* directive changes nothing.
C25_FirstSeenOrder ==
    Collected =>
        \A p \in Range(result.deps.keys) :
            LET adj == result.deps.val[p]
            IN  /\ NoDup(adj)
                /\ Range(adj) = KeptTargets(p)
                /\ \A a, b \in 1..Len(adj) :
                       a < b => FirstDirective(p, adj[a]) < FirstDirective(p, adj[b])

\* C25 happens: a document names a child, then another, then the first
\* again.
C25_Witness ==
    /\ Collected
    /\ \E p \in Range(result.deps.keys) :
           /\ Len(IncludeTargets(p)) = 3
           /\ IncludeTargets(p)[1] = IncludeTargets(p)[3]
           /\ IncludeTargets(p)[1] # IncludeTargets(p)[2]
           /\ result.deps.val[p] = <<IncludeTargets(p)[1], IncludeTargets(p)[2]>>

\* the positions of stderr that report the path as a missing reference
NotFoundReports(c) == {k \in 1..Len(stderr) : stderr[k] = Diag("Referenced file not found", c)}

\* the inclusion directives of the documents read that denote c
ReferencesTo(c) ==
    UNION {{<<r, k>> : k \in {j \in 1..Len(IncludeTargets(r)) : IncludeTargets(r)[j] = c}} :
              r \in Range(opened)}

\* C26: within one resolution the diagnostic "Referenced file not found" is
\* printed at most once for a path, however many directives and documents
\* reference it.
C26_MissingReportedOnce ==
    \A k \in 1..Len(stderr) :
        stderr[k].kind = "Referenced file not found" =>
            Cardinality(NotFoundReports(stderr[k].path)) = 1

\* C26 happens: two documents reference the same path, which is not a
\* file, and it has been reported once.
C26_Witness ==
    /\ Collected
    /\ \E c \in visited_set :
           /\ KnownMissing(c)
           /\ Cardinality(NotFoundReports(c)) = 1
           /\ \E x, y \in ReferencesTo(c) : x[1] # y[1]

\* C27: in every state of a resolution the keys of the adjacency map are
\* the paths of visitedOrder, in the same order, and they are all in the
\* visited set.
C27_KeysAreVisitedOrder ==
    /\ deps.keys = processed_order
    /\ DOMAIN deps.val = Range(processed_order)
    /\ Range(processed_order) \subseteq visited_set
    /\ Collected => (result.deps.keys = result.visited /\ DOMAIN result.deps.val = Range(result.visited))

\* C27 happens: in the middle of a resolution two documents are recorded
\* and a path that is not a file is in the visited set.
C27_Witness ==
    /\ pc = "collect"
    /\ stack # <<>>
    /\ Len(processed_order) = 2
    /\ Cardinality(visited_set) = 3

\* the number of positions of the list that hold x
Times(list, x) == Cardinality({k \in 1..Len(list) : list[k] = x})

\* C28: a document that is read and includes itself is a member of its own
\* adjacency list, is in visitedOrder once, at the position it was first
\* met at, and is read once.
C28_SelfEdge ==
    Collected =>
        /\ SelectSeq(result.visited, IsReadable) = opened
        /\ \A p \in Range(opened) :
               p \in KeptTargets(p) =>
                   /\ p \in Range(result.deps.val[p])
                   /\ Times(result.visited, p) = 1
                   /\ Times(opened, p) = 1

\* C28 happens: a document includes another document and then itself, by
\* a reference that is not its name.
C28_Witness ==
    /\ Collected
    /\ \E p \in Range(opened) :
           /\ Len(result.deps.val[p]) = 2
           /\ result.deps.val[p][2] = p
           /\ result.deps.val[p][1] \in Range(opened)
           /\ "./a" \in Range(IncludeRefsOf(p))

\* the position of a path in visitedOrder
VisitedAt(p) == CHOOSE k \in 1..Len(result.visited) : result.visited[k] = p

\* C29: the adjacency list of every document that was read holds every
\* non-excluded target of its inclusion directives, those visited before
\* the document was scanned included.
C29_FullReferenceRelation ==
    Collected =>
        \A p \in Range(opened) : KeptTargets(p) \subseteq Range(result.deps.val[p])

\* C29 happens: a document includes a document recorded before it that is
\* not its parent, and the edge is in its list.
C29_Witness ==
    /\ Collected
    /\ \E p, c \in Range(opened) :
           /\ VisitedAt(c) < VisitedAt(p)
           /\ c \in Range(result.deps.val[p])
           /\ p \notin Range(result.deps.val[c])

\* the lines of the tree the dry run has printed
TreeLines == IF stdout[2].kind = "Dependency tree" THEN stdout[2].items ELSE <<>>

\* the line after the subtree printed under line k
SubtreeEnd(k) ==
    LET later == {j \in (k + 1)..Len(TreeLines) : TreeLines[j].depth <= TreeLines[k].depth}
    IN  IF later = {} THEN Len(TreeLines) + 1 ELSE CHOOSE j \in later : \A i \in later : j <= i

\* the lines of the children printed under line k
ChildLines(k) ==
    {j \in (k + 1)..(SubtreeEnd(k) - 1) : TreeLines[j].depth = TreeLines[k].depth + 1}

\* the children the adjacency map gives a node
ChildrenIn(dct, node) == IF node \in Range(dct.keys) THEN dct.val[node] ELSE <<>>

\* the most lines a tree can have: one for each entry and one for each edge
MostLines == Len(entry_files) + 2 * Len(result.deps.keys)

\* a line that shows a node for the first time is followed by one line for
\* each child of the node, in sorted order; a line that shows it again has
\* the mark and nothing under it
TreeWellFormed ==
    /\ \A k \in 1..Len(TreeLines) :
           LET line == TreeLines[k]
               earlier == {j \in 1..(k - 1) : TreeLines[j].node = line.node}
           IN  /\ line.seen <=> earlier # {}
               /\ line.seen => SubtreeEnd(k) = k + 1
               /\ ~line.seen =>
                      /\ Cardinality(ChildLines(k)) = Len(ChildrenIn(result.deps, line.node))
                      /\ \A c \in TreeNodes :
                             Cardinality({j \in ChildLines(k) : TreeLines[j].node = c})
                                 = Times(ChildrenIn(result.deps, line.node), c)
                      /\ \A i, j \in ChildLines(k) :
                             i < j => ~StrLess(TreeLines[j].node, TreeLines[i].node)
               /\ k < Len(TreeLines) => TreeLines[k + 1].depth <= line.depth + 1
    /\ Cardinality({k \in 1..Len(TreeLines) : TreeLines[k].depth = 0})
           = Cardinality({k \in 1..Len(entry_files) : entry_files[k] \in Range(result.deps.keys)})
    /\ Len(TreeLines) <= MostLines

\* C30: print_tree ends on every adjacency map, cycles and self-edges
\* included: it has a value, of at most one line for each entry and each
\* edge; it expands a node at its first occurrence only, and prints every
\* later occurrence with the mark "(seen)" and nothing under it.
C30_PrintTreeTerminates ==
    /\ pc = "collected" => Len(print_tree(disk, result.deps, entry_files).items) <= MostLines
    /\ Exited => TreeWellFormed

\* C30 happens: the tree of a map with a cycle between two nodes, one of
\* which is its own child, has been printed.
C30_Witness ==
    /\ Exited
    /\ "a.tex" \in Range(ChildrenIn(result.deps, "a.tex"))
    /\ "b.tex" \in Range(ChildrenIn(result.deps, "a.tex"))
    /\ "a.tex" \in Range(ChildrenIn(result.deps, "b.tex"))
    /\ Cardinality({k \in 1..Len(TreeLines) : TreeLines[k].seen}) >= 2

====
